---- MODULE Spec2Model ----
(***************************************************************************)
(* The bootcamp portal backend (src/main.py): an SQLite store with the     *)
(* tables announcement, user, mentorlink and teammatelink, the seed loader *)
(* run at process start (lifespan) and the three request handlers          *)
(* GET /announcements, POST /announcements/new and POST /reset-db.         *)
(*                                                                         *)
(* A table is the set of its rows.  An INTEGER PRIMARY KEY column is the   *)
(* SQLite rowid: an INSERT without an id stores max(id)+1, and once the    *)
(* largest possible rowid is in the table, any unused positive rowid.      *)
(* SELECT without ORDER BY walks the table in rowid order.                 *)
(***************************************************************************)
EXTENDS Integers, Sequences, FiniteSets, TLC

\* ------------------------------------------------------------------ bounds
\* Rows the user table may grow to (four per process start).
MaxUsers == 8
\* Rows the announcement table may grow to.
MaxAnnouncements == 4
\* The largest rowid of the store (2^63 - 1 in SQLite), scaled down.
MaxRowid == 8

\* ------------------------------------------------------------ schema values
\* Python None in an integer column or field (id, teacher_id).
NullId == 0
\* Python None in a string column (websiteURL, resumeURL).
NullStr == "None"
\* No related object (teacher of a User that has none).
NoObj == "none"

\* The four User objects the seed loader constructs.
Objs == {"aryan", "aditi", "kimber", "gavin"}

aryan_img_url == "https://media.licdn.com/dms/image/v2/D4E35AQH0AwVtQ2-fug/profile-framedphoto-shrink_400_400/profile-framedphoto-shrink_400_400/0/1721141409771?e=1733724000&v=beta&t=jmpNYpfjBzGmvT3Ys0Uh5GBXDizN4Ffgk06a8d97lAE"
aryan_linkdin_url == "https://www.linkedin.com/in/aryanjain06/"
aryan_github_url == "https://github.com/aryanj112"
aditi_img_url == "https://media.licdn.com/dms/image/v2/D4E03AQEMlHUEHVLA2A/profile-displayphoto-shrink_400_400/profile-displayphoto-shrink_400_400/0/1726514279485?e=1738800000&v=beta&t=uor6AokOWHCl5eOJTFTgg2f6TtXq0hCzFYWbjsCupXM"
aditi_linkdin_url == "https://www.linkedin.com/in/-aditisethi/"
aditi_github_url == "https://github.com/aditisethi15"
gavin_img_url == "https://media.licdn.com/dms/image/v2/D5603AQGurWafPZmY3A/profile-displayphoto-shrink_400_400/profile-displayphoto-shrink_400_400/0/1712186812396?e=1738800000&v=beta&t=8ZDT-Nu_xUZQLHM_1k5jbTFciY1pjr0Ms3vdqiO5cqw"
gavin_github_url == "https://github.com/gavinkhung"
gavin_linkdin_url == "https://www.linkedin.com/in/gavinkhung/"
gavin_website_url == "https://www.gavinkhung.me/"
gavin_resume_url == "https://www.gavinkhung.me/resume.pdf"
kimber_img_url == "https://webv2-backend.appdevclub.com/team-images/kimber-gonzalez-lopez.jpeg"
kimber_linkdin_url == "https://www.linkedin.com/in/kimber-gonzalez-lopez/"
kimber_github_url == "https://github.com/KiberVG"

\* The column values each User object is constructed with.
UserAttrs ==
  [o \in Objs |->
    CASE o = "aryan" ->
           [name |-> "Aryan", password |-> "pass123", role |-> "STUDENT",
            imgURL |-> aryan_img_url, linkdinURL |-> aryan_linkdin_url,
            githubURL |-> aryan_github_url,
            websiteURL |-> NullStr, resumeURL |-> NullStr]
      [] o = "aditi" ->
           [name |-> "Aditi", password |-> "pass123", role |-> "STUDENT",
            imgURL |-> aditi_img_url, linkdinURL |-> aditi_linkdin_url,
            githubURL |-> aditi_github_url,
            websiteURL |-> NullStr, resumeURL |-> NullStr]
      [] o = "gavin" ->
           [name |-> "Gavin", password |-> "mentor123", role |-> "MENTOR",
            imgURL |-> gavin_img_url, linkdinURL |-> gavin_linkdin_url,
            githubURL |-> gavin_github_url,
            websiteURL |-> gavin_website_url, resumeURL |-> gavin_resume_url]
      [] o = "kimber" ->
           [name |-> "Kimber", password |-> "teach123", role |-> "TEACHER",
            imgURL |-> kimber_img_url, linkdinURL |-> kimber_linkdin_url,
            githubURL |-> kimber_github_url,
            websiteURL |-> NullStr, resumeURL |-> NullStr]]

\* ----------------------------------------------------------------- helpers
Range(s) == {s[i] : i \in 1..Len(s)}

Max(S) == CHOOSE m \in S : \A x \in S : x <= m

Min(S) == CHOOSE m \in S : \A x \in S : m <= x

\* The primary keys stored in a table.
Ids(table) == {r.id : r \in table}

\* s without its occurrences of x (a collection's remove).
RECURSIVE Without(_, _)
Without(s, x) ==
  IF s = <<>> THEN <<>>
  ELSE IF Head(s) = x THEN Without(Tail(s), x)
  ELSE <<Head(s)>> \o Without(Tail(s), x)

\* ---------------------------------------------------------- storage engine
\* NextIds off by one: the largest id in use is handed out again.
NextIdsReuseMax(used) ==
  IF used = {} THEN {1} ELSE {Max(used)}

\* The rowids an INSERT that names no id may store, given the ids in use:
\* 1 in an empty table, max+1 below the largest rowid, and any unused positive
\* rowid once the largest rowid is in use (none left: the INSERT fails).
NextIds(used) ==
  IF used = {} THEN {1}
  ELSE IF Max(used) < MaxRowid THEN {Max(used) + 1}
  ELSE (1..MaxRowid) \ used

\* InsertIds without the PRIMARY KEY constraint: a given id is always stored.
InsertIdsNoPk(used, id) ==
  IF id = NullId THEN NextIds(used) ELSE {id}

\* The ids an INSERT may store for a row whose id field is `id`: the next
\* rowid for None, the given id unless the PRIMARY KEY rejects it.  The empty
\* set is the INSERT failing (IntegrityError, database full).
InsertIds(used, id) ==
  IF id = NullId THEN NextIds(used)
  ELSE IF id \in used THEN {}
  ELSE {id}

\* The id sequences n successive INSERTs without an id may store; empty when
\* one of them fails.
RECURSIVE Alloc(_, _)
Alloc(used, n) ==
  IF n = 0 THEN {<<>>}
  ELSE UNION {{<<i>> \o rest : rest \in Alloc(used \cup {i}, n - 1)} :
              i \in NextIds(used)}

\* create_all mistaken for drop-and-recreate: the table's rows are lost.
create_db_and_tables_dropping(table) == {}

\* create_all for one table: a missing table is created empty, an existing
\* table keeps its rows.
create_db_and_tables(table) == table

\* drop_all for one table: the table and its rows are gone.
drop_all(table) == {}

\* A rollback that does not undo the flushed INSERT.
RollbackKeepsFlushed(before, flushed) == flushed

\* session.rollback(): the store is what it was before the transaction.
Rollback(before, flushed) == before

\* session.refresh(obj): the stored row with the object's primary key.
Refresh(table, id) == CHOOSE r \in table : r.id = id

\* SELECT ... FROM announcement, all(): the rows in rowid order.
RECURSIVE SelectAll(_)
SelectAll(table) ==
  IF table = {} THEN <<>>
  ELSE LET first == CHOOSE r \in table : r.id = Min(Ids(table))
       IN  <<first>> \o SelectAll(table \ {first})

\* ------------------------------------------------- ORM relationships (User)
\* The in-memory object graph: teacher (many-to-one), students (its inverse
\* collection), mentors/mentees (many-to-many, inverse of each other) and
\* teammates (many-to-many, no inverse).
NewGraph ==
  [teacher   |-> [o \in Objs |-> NoObj],
   students  |-> [o \in Objs |-> <<>>],
   mentors   |-> [o \in Objs |-> <<>>],
   mentees   |-> [o \in Objs |-> <<>>],
   teammates |-> [o \in Objs |-> <<>>]]

\* u.teammates.append(v)
AppendTeammate(g, u, v) ==
  [g EXCEPT !.teammates[u] = Append(@, v)]

\* s.teacher = t: the scalar is set, s leaves the students of a different
\* previous teacher, and back_populates appends s to t.students.
SetTeacher(g, s, t) ==
  LET old == g.teacher[s]
      g1  == IF old # NoObj /\ old # t
             THEN [g EXCEPT !.students[old] = Without(@, s)]
             ELSE g
  IN  [g1 EXCEPT !.teacher[s] = t, !.students[t] = Append(@, s)]

\* t.students.append(s): the collection grows, and back_populates sets
\* s.teacher = t, taking s out of a different previous teacher's students.
AppendStudent(g, t, s) ==
  LET old == g.teacher[s]
      g1  == [g EXCEPT !.students[t] = Append(@, s)]
      g2  == IF old # NoObj /\ old # t
             THEN [g1 EXCEPT !.students[old] = Without(@, s)]
             ELSE g1
  IN  [g2 EXCEPT !.teacher[s] = t]

\* m.mentees.append(e): back_populates appends m to e.mentors.
AppendMentee(g, m, e) ==
  [g EXCEPT !.mentees[m] = Append(@, e), !.mentors[e] = Append(@, m)]

\* The seed relationships with Aditi put into Gavin's students instead of
\* Kimber's by the last append.
SeedGraphWrongTeacher ==
  LET g1  == AppendTeammate(NewGraph, "aryan", "aditi")
      g2  == AppendTeammate(g1, "aditi", "aryan")
      g3  == AppendTeammate(g2, "kimber", "gavin")
      g4  == AppendTeammate(g3, "gavin", "kimber")
      g5  == SetTeacher(g4, "aryan", "kimber")
      g6  == SetTeacher(g5, "aditi", "kimber")
      g7  == AppendMentee(g6, "gavin", "aryan")
      g8  == AppendMentee(g7, "gavin", "aditi")
      g9  == AppendStudent(g8, "kimber", "aryan")
  IN  AppendStudent(g9, "gavin", "aditi")

\* The relationships lifespan sets on the four objects, in its order.
SeedGraph ==
  LET g1  == AppendTeammate(NewGraph, "aryan", "aditi")
      g2  == AppendTeammate(g1, "aditi", "aryan")
      g3  == AppendTeammate(g2, "kimber", "gavin")
      g4  == AppendTeammate(g3, "gavin", "kimber")
      g5  == SetTeacher(g4, "aryan", "kimber")
      g6  == SetTeacher(g5, "aditi", "kimber")
      g7  == AppendMentee(g6, "gavin", "aryan")
      g8  == AppendMentee(g7, "gavin", "aditi")
      g9  == AppendStudent(g8, "kimber", "aryan")
  IN  AppendStudent(g9, "kimber", "aditi")

\* The orders in which a flush may INSERT the objects: a teacher's row is
\* stored before its students' rows, whose teacher_id needs its key.
FlushOrders(g) ==
  {p \in [1..Cardinality(Objs) -> Objs] :
     /\ \A i, j \in DOMAIN p : i # j => p[i] # p[j]
     /\ \A i, j \in DOMAIN p : g.teacher[p[j]] = p[i] => i < j}

\* The primary key each object gets when its rows are stored in `order` with
\* the rowids `ids`.
KeyOf(order, ids) ==
  [o \in Objs |-> ids[CHOOSE i \in DOMAIN order : order[i] = o]]

\* The user rows a flush of the graph stores: teacher_id is the teacher's key.
UserRows(g, key) ==
  {[id |-> key[o], name |-> UserAttrs[o].name,
    password |-> UserAttrs[o].password, role |-> UserAttrs[o].role,
    imgURL |-> UserAttrs[o].imgURL, linkdinURL |-> UserAttrs[o].linkdinURL,
    githubURL |-> UserAttrs[o].githubURL,
    websiteURL |-> UserAttrs[o].websiteURL,
    resumeURL |-> UserAttrs[o].resumeURL,
    teacher_id |-> IF g.teacher[o] = NoObj THEN NullId ELSE key[g.teacher[o]]]
   : o \in Objs}

\* The teammatelink rows of the flush: one per member of a teammates
\* collection.
TeammateRows(g, key) ==
  {[user_id |-> key[u], teammate_id |-> key[v]] :
     <<u, v>> \in {<<a, b>> \in Objs \X Objs : b \in Range(g.teammates[a])}}

\* The mentorlink rows of the flush: one per mentor/mentee pair, whichever
\* of the two inverse collections holds it.
MentorRows(g, key) ==
  {[mentor_id |-> key[m], mentee_id |-> key[e]] :
     <<m, e>> \in {<<a, b>> \in Objs \X Objs :
                     \/ b \in Range(g.mentees[a])
                     \/ a \in Range(g.mentors[b])}}

\* ------------------------------------------------------ announcement source
\* The columns the loader reads from every row of data/announcements.csv.
CsvColumns == {"user_name", "tag", "description"}

\* A well-formed data/announcements.csv.
GoodCsv ==
  <<[user_name |-> "Kimber", tag |-> "@Homework", description |-> "Finish lab 1"],
    [user_name |-> "Gavin", tag |-> "@General", description |-> "Office hours"]>>

\* data/announcements.csv without its tag column.
MalformedCsv ==
  <<[user_name |-> "Kimber", description |-> "Finish lab 1"],
    [user_name |-> "Gavin", description |-> "Office hours"]>>

\* The contents data/announcements.csv may have at a process start.
CsvSources == {"good", "malformed"}

ReadCsv(source) == IF source = "good" THEN GoodCsv ELSE MalformedCsv

\* row['user_name'], row['tag'], row['description'] raise no KeyError.
CsvOk(csv) == \A i \in DOMAIN csv : CsvColumns \subseteq DOMAIN csv[i]

\* The loader with tag and description taken from each other's column.
LoadAnnouncementsSwapped(csv) ==
  [i \in DOMAIN csv |->
     [id |-> NullId, user_name |-> csv[i].user_name,
      tag |-> csv[i].description, description |-> csv[i].tag]]

\* The Announcement objects built from the rows, in row order, without id.
LoadAnnouncements(csv) ==
  [i \in DOMAIN csv |->
     [id |-> NullId, user_name |-> csv[i].user_name, tag |-> csv[i].tag,
      description |-> csv[i].description]]

\* The rows stored for the objects `objs` under the keys `ids`.
AnnouncementRows(objs, ids) ==
  {[objs[i] EXCEPT !.id = ids[i]] : i \in DOMAIN objs}

\* The request bodies of POST /announcements/new: the three text fields and
\* an optional id.
Payloads ==
  [id : {NullId, 2, MaxRowid},
   user_name : {"Aryan"},
   tag : {"@Question"},
   description : {"When is lab 1 due?"}]

\* --------------------------------------------------------------- the state
VARIABLES
  users,          \* the user table
  teammateLinks,  \* the teammatelink table
  mentorLinks,    \* the mentorlink table
  announcements,  \* the announcement table
  running,        \* the process has started and serves requests
  last,           \* the last event: a request with its response, a start, a stop
  phase,          \* what the requests since the last start or reset allow
  created         \* the records successful creates returned since the last reset

store == <<users, teammateLinks, mentorLinks, announcements>>

vars == <<users, teammateLinks, mentorLinks, announcements, running, last,
          phase, created>>

\* An event: its kind, the HTTP status (0 when it is no request), the error
\* detail, the announcements of the response body and the request body.
Event(kind, status, detail, body, req) ==
  [kind |-> kind, status |-> status, detail |-> detail, body |-> body,
   req |-> req]

\* Before the first process start: no database file, so every table is empty.
Init ==
  /\ users = {}
  /\ teammateLinks = {}
  /\ mentorLinks = {}
  /\ announcements = {}
  /\ running = FALSE
  /\ last = Event("init", 0, "", <<>>, <<>>)
  /\ phase = "other"
  /\ created = {}

\* ------------------------------------------------------------ the operations
\* Process start: the four users and their links are committed, then the
\* announcement source is read and its announcements are committed.  A source
\* without an expected column raises while the first row is read, after the
\* users' commit, and the process does not come up.
lifespan(source) ==
  /\ ~running
  /\ Cardinality(users) + Cardinality(Objs) <= MaxUsers
  /\ \E order \in FlushOrders(SeedGraph) :
       \E ids \in Alloc(Ids(users), Cardinality(Objs)) :
         LET key == KeyOf(order, ids)
             csv == ReadCsv(source)
         IN  /\ users' = create_db_and_tables(users)
                           \cup UserRows(SeedGraph, key)
             /\ teammateLinks' = create_db_and_tables(teammateLinks)
                                   \cup TeammateRows(SeedGraph, key)
             /\ mentorLinks' = create_db_and_tables(mentorLinks)
                                 \cup MentorRows(SeedGraph, key)
             /\ \/ /\ ~CsvOk(csv)
                   /\ announcements' = create_db_and_tables(announcements)
                   /\ running' = FALSE
                   /\ phase' = "other"
                   /\ last' = Event("start", 0, "KeyError", <<>>, <<>>)
                \/ /\ CsvOk(csv)
                   /\ Cardinality(announcements) + Len(csv) <= MaxAnnouncements
                   /\ \E annIds \in Alloc(Ids(announcements), Len(csv)) :
                        announcements' = create_db_and_tables(announcements)
                          \cup AnnouncementRows(LoadAnnouncements(csv), annIds)
                   /\ running' = TRUE
                   /\ phase' = IF users = {} /\ teammateLinks = {}
                                  /\ mentorLinks = {} /\ announcements = {}
                               THEN "started_empty" ELSE "other"
                   /\ last' = Event("start", 0, "", <<>>, <<>>)
  /\ UNCHANGED created

\* Process stop.
shutdown ==
  /\ running
  /\ running' = FALSE
  /\ last' = Event("stop", 0, "", <<>>, <<>>)
  /\ phase' = "other"
  /\ UNCHANGED <<store, created>>

\* GET /announcements: every stored announcement, in storage order.
get_announcements ==
  /\ running
  /\ last' = Event("list", 200, "", SelectAll(announcements), <<>>)
  /\ UNCHANGED <<store, running, phase, created>>

\* POST /announcements/new: the payload is added and committed; a failing
\* commit is rolled back and answered 500, a successful one is answered with
\* the refreshed record.
post_announcement(announcement, commitFails) ==
  /\ running
  /\ Cardinality(announcements) < MaxAnnouncements
  /\ phase' = "other"
  /\ UNCHANGED <<users, teammateLinks, mentorLinks, running>>
  /\ LET ids == InsertIds(Ids(announcements), announcement.id)
         failed == Event("create", 500, "Database commit failed", <<>>,
                         <<announcement>>)
     IN  \/ /\ ids = {}
            /\ announcements' = Rollback(announcements, announcements)
            /\ last' = failed
            /\ UNCHANGED created
         \/ \E id \in ids :
              LET flushed == announcements \cup {[announcement EXCEPT !.id = id]}
              IN  IF commitFails
                  THEN /\ announcements' = Rollback(announcements, flushed)
                       /\ last' = failed
                       /\ UNCHANGED created
                  ELSE /\ announcements' = flushed
                       /\ last' = Event("create", 200, "",
                                        <<Refresh(flushed, id)>>, <<announcement>>)
                       /\ created' = created \cup {Refresh(flushed, id)}

\* drop_all then create_all: every table exists and is empty.
reset_db_and_tables ==
  /\ users' = create_db_and_tables(drop_all(users))
  /\ teammateLinks' = create_db_and_tables(drop_all(teammateLinks))
  /\ mentorLinks' = create_db_and_tables(drop_all(mentorLinks))
  /\ announcements' = create_db_and_tables(drop_all(announcements))

\* POST /reset-db.
reset_database ==
  /\ running
  /\ reset_db_and_tables
  /\ last' = Event("reset", 200, "Database has been reset", <<>>, <<>>)
  /\ phase' = "reset"
  /\ created' = {}
  /\ UNCHANGED running

Next ==
  \/ \E source \in CsvSources : lifespan(source)
  \/ shutdown
  \/ get_announcements
  \/ \E announcement \in Payloads, commitFails \in BOOLEAN :
       post_announcement(announcement, commitFails)
  \/ reset_database

Spec == Init /\ [][Next]_vars

\* ------------------------------------------------------------- the claims
\* The user_name, tag and description of an announcement.
Texts(a) ==
  [user_name |-> a.user_name, tag |-> a.tag, description |-> a.description]

\* The user_name, tag and description of each announcement of a list.
TextsOf(body) == [i \in DOMAIN body |-> Texts(body[i])]

\* The step is a create-announcement request answered 200.
CreateOkStep ==
  /\ last'.kind = "create"
  /\ last'.status = 200
  /\ announcements' # announcements

\* The event is a successful create whose payload carried no id.
AutoCreateOk(e) ==
  /\ e.kind = "create"
  /\ e.status = 200
  /\ e.req[1].id = NullId

\* The step is a process start.
StartStep == ~running /\ last'.kind = "start" /\ users' # users

\* user S's teacher, as the many-to-one relationship loads it.
TeacherOf(s) == {t \in users : s.teacher_id # NullId /\ t.id = s.teacher_id}

\* user T's students, as the one-to-many collection loads it.
StudentsOf(t) == {s \in users : s.teacher_id = t.id}

\* C1: a list request right after a reset request returns exactly the seeded
\* announcements (reset restores the initial seeded state).
C1_ResetThenListIsSeeded ==
  (last.kind = "list" /\ phase = "reset") => TextsOf(last.body) = GoodCsv

\* C2: restarts are idempotent for seeding: a start after a stop that finds
\* rows in the user table or in the announcement table inserts nothing into
\* that table.
C2_RestartSkipsSeededTables ==
  [][(last.kind = "stop" /\ StartStep) =>
       /\ users # {} => users' = users
       /\ announcements # {} => announcements' = announcements]_vars

\* C3: after a start on an empty store and before any create or reset, a
\* list request returns one announcement per row of the source, in source
\* order, with the row's user_name, tag and description, and nothing else.
C3_StartOnEmptyStoreListsSeed ==
  (last.kind = "list" /\ phase = "started_empty")
    => TextsOf(last.body) = GoodCsv

C3_Witness ==
  /\ last.kind = "list"
  /\ phase = "started_empty"
  /\ Len(last.body) = Len(GoodCsv)

\* C4: a successful create returns a record whose id no stored announcement
\* had before the request and whose texts are the submitted ones, and every
\* list until the next reset contains each record a create returned.
C4_CreateReturnsFreshIdAndIsListed ==
  /\ [][CreateOkStep =>
          /\ last'.body[1].id \notin Ids(announcements)
          /\ Texts(last'.body[1]) = Texts(last'.req[1])]_vars
  /\ [](last.kind = "list" => created \subseteq Range(last.body))

C4_Witness ==
  /\ last.kind = "list"
  /\ Cardinality(created) >= 2
  /\ created \subseteq Range(last.body)

\* C5: of two successful creates without id made one after the other, the
\* second gets a strictly greater id than the first.
C5_SequentialCreatesIncrease ==
  [][(AutoCreateOk(last) /\ AutoCreateOk(last') /\ CreateOkStep)
       => last'.body[1].id > last.body[1].id]_vars

\* C6: a create whose commit fails is answered 500 with the detail
\* "Database commit failed" and leaves the stored announcements as they were.
C6_FailedCommitIsRolledBack ==
  [][(last'.kind = "create" /\ last'.status # 200) =>
       /\ last'.status = 500
       /\ last'.detail = "Database commit failed"
       /\ announcements' = announcements]_vars

C6_Witness ==
  /\ last.kind = "create"
  /\ last.status = 500
  /\ last.req[1].id = NullId
  /\ announcements # {}

\* C7: seeding is all-or-nothing: a start that fails on a malformed
\* announcement source has persisted no user, link or announcement.
C7_FailedSeedingPersistsNothing ==
  [][(StartStep /\ last'.detail = "KeyError") => store' = store]_vars

\* C8: S has teacher T exactly when S is one of T's students; every Aryan and
\* Aditi row has a Kimber row as teacher, and a Kimber row's students are one
\* Aryan row and one Aditi row.
C8_TeacherAndStudentsAgree ==
  /\ \A s, t \in users : (TeacherOf(s) = {t}) <=> (s \in StudentsOf(t))
  /\ \A s \in users :
       s.name \in {"Aryan", "Aditi"} =>
         \E t \in users : t.name = "Kimber" /\ TeacherOf(s) = {t}
  /\ \A t \in users :
       t.name = "Kimber" =>
         /\ Cardinality(StudentsOf(t)) = 2
         /\ Cardinality({s \in StudentsOf(t) : s.name = "Aryan"}) = 1
         /\ Cardinality({s \in StudentsOf(t) : s.name = "Aditi"}) = 1

C8_Witness ==
  /\ Cardinality(users) = 2 * Cardinality(Objs)
  /\ Cardinality({t \in users : Cardinality(StudentsOf(t)) = 2}) = 2

\* C9: no two stored announcements and no two stored users share an id, and
\* a row that keeps existing keeps its id: after any step, the row stored
\* under an id that was in use before is the row that was stored under it.
C9_IdsUniqueAndStable ==
  /\ [](/\ \A a, b \in announcements : a.id = b.id => a = b
        /\ \A u, v \in users : u.id = v.id => u = v)
  /\ [][/\ \A a \in announcements : \A b \in announcements' :
             b.id = a.id => b = a
        /\ \A u \in users : \A v \in users' : v.id = u.id => v = u]_vars

C9_Witness ==
  /\ Cardinality(users) = 2 * Cardinality(Objs)
  /\ created # {}
  /\ Cardinality(announcements) > Cardinality(created)

\* C10: a list request changes nothing in the store; a successful create adds
\* exactly one announcement and changes no other row of any table; and no
\* step but a reset removes or alters a stored row.
C10_OnlyResetRemovesRows ==
  [][/\ last'.kind = "list" => store' = store
     /\ CreateOkStep =>
          /\ \E a \in announcements' \ announcements :
               announcements' = announcements \cup {a}
          /\ users' = users
          /\ teammateLinks' = teammateLinks
          /\ mentorLinks' = mentorLinks
     /\ last'.kind # "reset" =>
          /\ users \subseteq users'
          /\ teammateLinks \subseteq teammateLinks'
          /\ mentorLinks \subseteq mentorLinks'
          /\ announcements \subseteq announcements']_vars

C10_Witness ==
  /\ last.kind = "create"
  /\ last.status = 200
  /\ users # {}
  /\ Cardinality(announcements) = MaxAnnouncements

====
